---- MODULE Spec2Model ----
(***************************************************************************)
(* Model of distributed/worker_client.py: the scoped nested-client context *)
(* (worker_client), its deprecated alias (local_client) and the worker     *)
(* runtime it drives: the thread pool's secede/rejoin accounting, the      *)
(* worker's task table, the worker's control loop and the cached client.   *)
(*                                                                         *)
(* Thread 0 is a thread of the worker process that executes no task.       *)
(* Thread k (k in Tasks) is the thread executing the task with key k.      *)
(***************************************************************************)
EXTENDS Naturals, Integers, Sequences, FiniteSets, TLC

\* ------------------------------------------------------------------ bounds
NumTasks == 2      \* tasks the worker has accepted
Capacity == 1      \* the pool's configured concurrency limit
MaxCalls == 2      \* scope entries (worker_client / local_client calls) in a run

Tasks    == 1..NumTasks
Threads  == 0..NumTasks
Excs     == {"e1"}                       \* failures a caller's block can raise
Executing == {"processing", "long-running"}
Done      == {"finished", "error"}
\* No longer in the worker's task table: completed, or released by the
\* scheduler ("released": the record is gone, whatever its thread still does).
Ended     == Done \cup {"released"}

\* The timeout argument as the caller writes it: omitted (None), a number of
\* seconds, or a string spelled as a sequence of characters.
None      == [kind |-> "none", n |-> 0, s |-> <<>>]
Number(n) == [kind |-> "number", n |-> n, s |-> <<>>]
String(s) == [kind |-> "string", n |-> 0, s |-> s]
\* dask.config "distributed.comm.timeouts.connect": a duration string.
ConfigDefault == String(<<"3", "s">>)
\* The timeouts callers pass, each with the number of seconds it stands for
\* (-1: it stands for none, the string is not a duration).
TimeoutCases ==
    { [timeout |-> None,                   seconds |-> 3],
      [timeout |-> Number(2),              seconds |-> 2],
      [timeout |-> String(<<"2", "s">>),   seconds |-> 2],
      [timeout |-> String(<<"2">>),        seconds |-> 2],
      [timeout |-> String(<<"1", "m">>),   seconds |-> 60],
      [timeout |-> String(<<"s", "2">>),   seconds |-> -1] }
Timeouts == { c.timeout : c \in TimeoutCases }

VARIABLES
    tasks,         \* worker.tasks: task key -> state of the task record
    running,       \* the tasks whose body is executing on their thread
    pool_threads,  \* the executor's pool-accounted (slot-holding) threads
    pairing,       \* per thread: outcomes of its secede calls not yet rejoined
    loop,          \* worker.loop: callbacks posted and not yet run
    client,        \* the worker's cached client handle (0: none yet)
    nclients,      \* client handles created so far in this process
    stack,         \* per thread: its open worker_client generators, innermost last
    exc,           \* per thread: the failure propagating in it ("none": none)
    wait,          \* per thread: the task whose result it blocks on (0: none)
    lastExit,      \* the record of the scope the last step left (NoExit: none)
    ncalls         \* scope entries made so far

vars == <<tasks, running, pool_threads, pairing, loop, client, nclients, stack, exc,
          wait, lastExit, ncalls>>

\* ------------------------------------------------------- worker runtime
\* thread_state.key: the key of the task the thread executes, 0 when none.
thread_state_key(th) == IF th \in running THEN th ELSE 0

\* parse_timedelta(s, default): a number is a number of seconds; a string is
\* digits followed by a unit, `default` standing in for a missing unit; any
\* other string is not a duration.
Digits == {"0", "1", "2", "3"}
DigitValue(c) == CASE c = "1" -> 1 [] c = "2" -> 2 [] c = "3" -> 3 [] OTHER -> 0
UnitSeconds(u) == CASE u = <<"s">> -> 1 [] u = <<"m">> -> 60 [] OTHER -> 0
RECURSIVE NumberOf(_)
NumberOf(ds) ==
    IF Len(ds) = 0 THEN 0
    ELSE 10 * NumberOf(SubSeq(ds, 1, Len(ds) - 1)) + DigitValue(ds[Len(ds)])
DigitsLen(s) ==
    Cardinality({ i \in 1..Len(s) : \A j \in 1..i : s[j] \in Digits })
parse_timedelta(t, default) ==
    IF t.kind # "string"
      THEN [error |-> "none", seconds |-> IF t.kind = "number" THEN t.n ELSE -1]
      ELSE LET k == DigitsLen(t.s)
               suffix == SubSeq(t.s, k + 1, Len(t.s))
               unit == IF Len(suffix) = 0 THEN default ELSE suffix
           IN  IF k = 0 \/ UnitSeconds(unit) = 0
                 THEN [error |-> "ParseError", seconds |-> -1]
                 ELSE [error |-> "none",
                       seconds |-> NumberOf(SubSeq(t.s, 1, k)) * UnitSeconds(unit)]

\* get_worker() and get_client(timeout=...): the reentrant client accessor.
\* Creation is single-flighted: the lookup and the caching are one step.
get_client(key, cached, made, timedOut) ==
    IF key = 0
      THEN [error |-> "NotInTaskContext", client |-> 0, created |-> FALSE]
    ELSE IF cached # 0
      THEN [error |-> "none", client |-> cached, created |-> FALSE]
    ELSE IF timedOut
      THEN [error |-> "ConnectionTimeout", client |-> 0, created |-> FALSE]
    ELSE [error |-> "none", client |-> made + 1, created |-> TRUE]

\* secede(): a pool-accounted thread releases its slot; from any other thread
\* it is a no-op with a warning.  The outcome is remembered so that the
\* paired rejoin can be matched with it.
secede_releases(th, pool) == th \in pool
secede_pool(th, pool) == pool \ {th}
secede_pairing(th, pool, pr) == Append(pr, secede_releases(th, pool))

\* rejoin(): reclaims the slot when the matching secede released one; without
\* a matching secede, or when the matching secede was a no-op, it is a no-op.
rejoin_reclaims(pr) == Len(pr) > 0 /\ pr[Len(pr)]
rejoin_pool(th, pool, pr) == IF rejoin_reclaims(pr) THEN pool \cup {th} ELSE pool
rejoin_pairing(pr) == IF Len(pr) > 0 THEN SubSeq(pr, 1, Len(pr) - 1) ELSE pr

\* Variant: a rejoin that reclaims a slot queues until the pool has a free one.
RejoinQueues(th, pool, pr) ==
    rejoin_reclaims(pr) => Cardinality(pool \ {th}) < Capacity

\* rejoin() re-registers the thread's bookkeeping whatever the pool's load: it
\* never makes the thread wait.
rejoin_admits(th, pool, pr) == TRUE

\* worker.transition(ts, "long-running"), run by the control loop.
transition(ts, key, finish) ==
    IF key \in DOMAIN ts /\ ts[key] = "processing" /\ finish = "long-running"
      THEN [ts EXCEPT ![key] = finish]
      ELSE ts

\* ------------------------------------------------------- worker_client
\* Variant: secede and add_callback placed before the client is acquired.
StepSecedeFirst(pc, separate_thread) ==
    CASE pc = "call"         -> IF separate_thread THEN "secede" ELSE "get_client"
      [] pc = "secede"       -> "add_callback"
      [] pc = "add_callback" -> "get_client"
      [] pc = "get_client"   -> "yield"
      [] pc = "yield"        -> IF separate_thread THEN "rejoin" ELSE "exit"
      [] OTHER               -> "exit"

\* Variant: the entry does not test separate_thread.
StepAlwaysSecede(pc, separate_thread) ==
    CASE pc = "call"         -> "get_client"
      [] pc = "get_client"   -> "secede"
      [] pc = "secede"       -> "add_callback"
      [] pc = "add_callback" -> "yield"
      [] pc = "yield"        -> IF separate_thread THEN "rejoin" ELSE "exit"
      [] OTHER               -> "exit"

\* Variant: the entry posts the transition but does not secede.
StepNoSecede(pc, separate_thread) ==
    CASE pc = "call"         -> "get_client"
      [] pc = "get_client"   -> IF separate_thread THEN "add_callback" ELSE "yield"
      [] pc = "add_callback" -> "yield"
      [] pc = "yield"        -> IF separate_thread THEN "rejoin" ELSE "exit"
      [] OTHER               -> "exit"

\* The generator's control flow: the statement executed after the one at pc.
Step(pc, separate_thread) ==
    CASE pc = "call"         -> "get_client"
      [] pc = "get_client"   -> IF separate_thread THEN "secede" ELSE "yield"
      [] pc = "secede"       -> "add_callback"
      [] pc = "add_callback" -> "yield"
      [] pc = "yield"        -> IF separate_thread THEN "rejoin" ELSE "exit"
      [] OTHER               -> "exit"

\* Variant: the explicit argument is dropped, the configured default used.
ResolveTimeoutDefault(timeout) == parse_timedelta(ConfigDefault, <<"s">>)

\* if timeout is None: timeout = dask.config.get(...)
\* timeout = parse_timedelta(timeout, "s")
ResolveTimeout(timeout) ==
    parse_timedelta(IF timeout = None THEN ConfigDefault ELSE timeout, <<"s">>)

\* Variant: a client of its own for every scope.
AcquireFresh(key, cached, made, timedOut) == get_client(key, 0, made, timedOut)

\* The client worker_client yields: what get_client returned.
Acquire(key, cached, made, timedOut) == get_client(key, cached, made, timedOut)

\* Variant: the alias drops its arguments (worker_client's default applies).
ForwardDefaults(separate_thread) == TRUE

\* local_client(*args, **kwargs): the arguments it hands to worker_client.
Forward(separate_thread) == separate_thread

\* The record of one scope: the thread, the argument the caller gave, the
\* arguments worker_client received, its position and what it has done so far
\* (timedOut: its connection attempt, if it makes one, will not finish in
\* time; seconds: the resolved timeout, passed: the timeout get_client was
\* called with, -1 while there is none; created: the step that left the scope
\* created a client handle).
Frame(th, arg, timeout, separate_thread, alias, notices, timedOut) ==
    [thread          |-> th,
     arg             |-> arg,
     timeout         |-> timeout,
     seconds         |-> -1,
     passed          |-> -1,
     timedOut        |-> timedOut,
     pc              |-> "call",
     separate_thread |-> separate_thread,
     alias           |-> alias,
     notices         |-> notices,
     client          |-> 0,
     created         |-> FALSE,
     accBefore       |-> th \in pool_threads,
     secedes         |-> 0,
     released        |-> FALSE,
     posted          |-> 0,
     entered         |-> FALSE,
     accInside       |-> FALSE,
     rejoins         |-> 0,
     blockExc        |-> "none",
     outcome         |-> "open",
     accAfter        |-> FALSE]

NoExit == [Frame(0, FALSE, None, FALSE, FALSE, 0, FALSE)
              EXCEPT !.outcome = "never", !.accBefore = FALSE]

Top(th) == stack[th][Len(stack[th])]
Below(th) == SubSeq(stack[th], 1, Len(stack[th]) - 1)
At(th, pc) == Len(stack[th]) > 0 /\ Top(th).pc = pc

\* The thread runs caller code: task code outside any scope or inside the
\* innermost scope's block, not blocked and with no failure in flight.
InUserCode(th) ==
    /\ exc[th] = "none"
    /\ wait[th] = 0
    /\ th \in Tasks => th \in running
    /\ IF Len(stack[th]) = 0 THEN TRUE ELSE Top(th).pc = "yield"

\* What a statement of the generator works on: the generator's record f, the
\* shared objects it reaches, and how it has left ("none": it has not).
World(th, f) ==
    [f |-> f, out |-> "none", pool |-> pool_threads, pairing |-> pairing[th],
     loop |-> loop, client |-> client, nclients |-> nclients]

\* The generator moves on from the statement it has just executed.
Advance(th, w) ==
    LET next == Step(w.f.pc, w.f.separate_thread)
    IN  [w EXCEPT !.f.pc = next,
                  !.f.entered = @ \/ next = "yield",
                  !.f.accInside = IF next = "yield" THEN th \in w.pool ELSE @,
                  !.out = IF next = "exit" THEN "returned" ELSE "none"]

\* The timeout is resolved before anything else is touched.
DoResolveTimeout(th, w) ==
    LET r == ResolveTimeout(w.f.timeout)
    IN  IF r.error # "none"
          THEN [w EXCEPT !.out = r.error]
          ELSE Advance(th, [w EXCEPT !.f.seconds = r.seconds])

\* worker = get_worker(); client = get_client(timeout=timeout)
DoGetClient(th, w) ==
    LET r == Acquire(thread_state_key(th), w.client, w.nclients, w.f.timedOut)
    IN  IF r.error # "none"
          THEN [w EXCEPT !.out = r.error, !.f.timedOut = FALSE,
                         !.f.passed = w.f.seconds]
          ELSE Advance(th, [w EXCEPT !.client = r.client,
                                     !.f.timedOut = FALSE,
                                     !.f.passed = w.f.seconds,
                                     !.nclients = IF r.created THEN @ + 1 ELSE @,
                                     !.f.client = r.client])

\* Variant: a secede that released nothing is a hard failure of the entry.
DoSecedeStrict(th, w) ==
    IF secede_releases(th, w.pool)
      THEN Advance(th, [w EXCEPT !.pool = secede_pool(th, w.pool),
                                 !.pairing = secede_pairing(th, w.pool, w.pairing),
                                 !.f.secedes = @ + 1,
                                 !.f.released = TRUE])
      ELSE [w EXCEPT !.out = "SecedeOutsidePool", !.f.secedes = @ + 1]

\* secede()
DoSecede(th, w) ==
    Advance(th, [w EXCEPT !.pool = secede_pool(th, w.pool),
                          !.pairing = secede_pairing(th, w.pool, w.pairing),
                          !.f.secedes = @ + 1,
                          !.f.released = secede_releases(th, w.pool)])

\* worker.loop.add_callback(worker.transition, worker.tasks[thread_state.key],
\*                          "long-running")
DoAddCallback(th, w) ==
    LET key == thread_state_key(th)
    IN  IF key = 0
          THEN [w EXCEPT !.out = "AttributeError"]
        ELSE IF tasks[key] \in Ended
          THEN [w EXCEPT !.out = "KeyError"]
          ELSE Advance(th, [w EXCEPT !.loop = Append(w.loop,
                                         [key |-> key, finish |-> "long-running"]),
                                     !.f.posted = @ + 1])

\* Variant: the exit also asks the control loop to move the task back to
\* processing.
DoRejoinRestoring(th, w) ==
    Advance(th, [w EXCEPT !.pool = rejoin_pool(th, w.pool, w.pairing),
                          !.pairing = rejoin_pairing(w.pairing),
                          !.loop = Append(w.loop,
                                      [key |-> th, finish |-> "processing"]),
                          !.f.rejoins = @ + 1])

\* rejoin()
DoRejoin(th, w) ==
    Advance(th, [w EXCEPT !.pool = rejoin_pool(th, w.pool, w.pairing),
                          !.pairing = rejoin_pairing(w.pairing),
                          !.f.rejoins = @ + 1])

\* Statements that touch only the calling thread's own bookkeeping or read the
\* cache run in the same step as the statement before them.
Run(th, w) ==
    IF w.out = "none" /\ w.f.pc = "get_client" THEN DoGetClient(th, w)
    ELSE IF w.out = "none" /\ w.f.pc = "rejoin" THEN DoRejoin(th, w)
    ELSE w

\* The step's result w becomes the state: the generator stays on the thread's
\* stack above `below`, or it has left and its record is kept in lastExit.
Commit(th, below, result) ==
    \E w \in {result} :
        /\ pool_threads' = w.pool
        /\ pairing' = [pairing EXCEPT ![th] = w.pairing]
        /\ loop' = w.loop
        /\ client' = w.client
        /\ nclients' = w.nclients
        /\ stack' = [stack EXCEPT ![th] =
                        IF w.out = "none" THEN Append(below, w.f) ELSE below]
        /\ exc' = [exc EXCEPT ![th] =
                        IF w.out \in {"none", "returned"} THEN "none" ELSE w.out]
        /\ lastExit' = IF w.out = "none" THEN NoExit
                       ELSE [w.f EXCEPT !.pc = "exit", !.outcome = w.out,
                                        !.created = w.nclients # nclients,
                                        !.accAfter = th \in w.pool]

\* with worker_client(timeout, separate_thread) as c: runs the generator up to
\* its first statement that another thread can observe.
worker_client(th, timeout, separate_thread, timedOut) ==
    /\ InUserCode(th)
    /\ ncalls < MaxCalls
    /\ ncalls' = ncalls + 1
    /\ \E w \in {DoResolveTimeout(th, World(th,
                      Frame(th, separate_thread, timeout, separate_thread,
                            FALSE, 0, timedOut)))} :
           Commit(th, stack[th], Run(th, w))
    /\ UNCHANGED <<tasks, running, wait>>

\* with local_client(timeout, separate_thread) as c: warn, then worker_client.
local_client(th, timeout, separate_thread, timedOut) ==
    /\ InUserCode(th)
    /\ ncalls < MaxCalls
    /\ ncalls' = ncalls + 1
    /\ \E w \in {DoResolveTimeout(th, World(th,
                      Frame(th, separate_thread, timeout,
                            Forward(separate_thread), TRUE, 1, timedOut)))} :
           Commit(th, stack[th], Run(th, w))
    /\ UNCHANGED <<tasks, running, wait>>

WCSecede(th) ==
    /\ At(th, "secede")
    /\ Commit(th, Below(th), Run(th, DoSecede(th, World(th, Top(th)))))
    /\ UNCHANGED <<tasks, running, wait, ncalls>>

WCAddCallback(th) ==
    /\ At(th, "add_callback")
    /\ Commit(th, Below(th), Run(th, DoAddCallback(th, World(th, Top(th)))))
    /\ UNCHANGED <<tasks, running, wait, ncalls>>

\* The thread's block can complete and the generator run to its end: the
\* thread is in the block and the rejoin on the way out, if there is one, does
\* not make it wait.
CanLeave(th) ==
    /\ InUserCode(th)
    /\ At(th, "yield")
    /\ Step("yield", Top(th).separate_thread) = "rejoin"
           => rejoin_admits(th, pool_threads, pairing[th])

\* The caller's block completes: the generator is resumed after the yield and
\* runs to its end.
BlockReturn(th) ==
    /\ CanLeave(th)
    /\ Commit(th, Below(th), Run(th, Advance(th, World(th, Top(th)))))
    /\ UNCHANGED <<tasks, running, wait, ncalls>>

\* The caller's block raises e: the failure is thrown into the generator at
\* the yield, which has no handler around it, and leaves the generator.
BlockRaise(th, e) ==
    /\ InUserCode(th)
    /\ At(th, "yield")
    /\ Commit(th, Below(th),
              [World(th, [Top(th) EXCEPT !.blockExc = e]) EXCEPT !.out = e])
    /\ UNCHANGED <<tasks, running, wait, ncalls>>

\* A failure in flight reaches the block of the enclosing scope and is not
\* handled there: that block raises it in turn.
Propagate(th) ==
    /\ exc[th] # "none"
    /\ At(th, "yield")
    /\ Commit(th, Below(th),
              [World(th, [Top(th) EXCEPT !.blockExc = exc[th]])
                   EXCEPT !.out = exc[th]])
    /\ UNCHANGED <<tasks, running, wait, ncalls>>

\* The caller's code handles the failure in flight (try/except around the with).
Catch(th) ==
    /\ exc[th] # "none"
    /\ exc' = [exc EXCEPT ![th] = "none"]
    /\ lastExit' = NoExit
    /\ UNCHANGED <<tasks, running, pool_threads, pairing, loop, client, nclients,
                   stack, wait, ncalls>>

\* c.gather(futures) inside the block: the thread blocks on a sub-task.
Gather(th, u) ==
    /\ InUserCode(th)
    /\ At(th, "yield")
    /\ Top(th).client # 0
    /\ u \in Tasks /\ u > th
    /\ tasks[u] \notin Ended
    /\ wait' = [wait EXCEPT ![th] = u]
    /\ lastExit' = NoExit
    /\ UNCHANGED <<tasks, running, pool_threads, pairing, loop, client, nclients,
                   stack, exc, ncalls>>

\* The awaited sub-task has completed: the blocking call returns.
WaitReturn(th) ==
    /\ wait[th] # 0
    /\ tasks[wait[th]] \in Ended
    /\ wait' = [wait EXCEPT ![th] = 0]
    /\ lastExit' = NoExit
    /\ UNCHANGED <<tasks, running, pool_threads, pairing, loop, client, nclients,
                   stack, exc, ncalls>>

\* ------------------------------------------------------- the worker
\* The pool starts a queued task when it has a free slot.
TaskStart(t) ==
    /\ tasks[t] = "waiting"
    /\ Cardinality(pool_threads) < Capacity
    /\ tasks' = [tasks EXCEPT ![t] = "processing"]
    /\ running' = running \cup {t}
    /\ pool_threads' = pool_threads \cup {t}
    /\ lastExit' = NoExit
    /\ UNCHANGED <<pairing, loop, client, nclients, stack, exc, wait, ncalls>>

\* The task's function returns: its thread leaves the task.
TaskFinish(t) ==
    /\ t \in Tasks
    /\ InUserCode(t)
    /\ Len(stack[t]) = 0
    /\ tasks' = [tasks EXCEPT ![t] = IF @ = "released" THEN @ ELSE "finished"]
    /\ running' = running \ {t}
    /\ pool_threads' = pool_threads \ {t}
    /\ pairing' = [pairing EXCEPT ![t] = <<>>]
    /\ lastExit' = NoExit
    /\ UNCHANGED <<loop, client, nclients, stack, exc, wait, ncalls>>

\* The task's function raises: the failure leaves the task.
TaskError(t) ==
    /\ t \in Tasks
    /\ t \in running
    /\ exc[t] # "none"
    /\ Len(stack[t]) = 0
    /\ tasks' = [tasks EXCEPT ![t] = IF @ = "released" THEN @ ELSE "error"]
    /\ running' = running \ {t}
    /\ exc' = [exc EXCEPT ![t] = "none"]
    /\ pool_threads' = pool_threads \ {t}
    /\ pairing' = [pairing EXCEPT ![t] = <<>>]
    /\ lastExit' = NoExit
    /\ UNCHANGED <<loop, client, nclients, stack, wait, ncalls>>

\* The control loop runs the next posted callback.
LoopRun ==
    /\ Len(loop) > 0
    /\ tasks' = transition(tasks, Head(loop).key, Head(loop).finish)
    /\ loop' = Tail(loop)
    /\ lastExit' = NoExit
    /\ UNCHANGED <<running, pool_threads, pairing, client, nclients, stack, exc,
                   wait, ncalls>>

\* The scheduler releases a task the worker is executing: its record leaves
\* the task table while its body runs on.
Release(t) ==
    /\ tasks[t] \in Executing
    /\ tasks' = [tasks EXCEPT ![t] = "released"]
    /\ lastExit' = NoExit
    /\ UNCHANGED <<running, pool_threads, pairing, loop, client, nclients, stack,
                   exc, wait, ncalls>>

\* ------------------------------------------------------- specification
Init ==
    /\ tasks = [t \in Tasks |-> "waiting"]
    /\ running = {}
    /\ pool_threads = {}
    /\ pairing = [th \in Threads |-> <<>>]
    /\ loop = <<>>
    /\ client = 0
    /\ nclients = 0
    /\ stack = [th \in Threads |-> <<>>]
    /\ exc = [th \in Threads |-> "none"]
    /\ wait = [th \in Threads |-> 0]
    /\ lastExit = NoExit
    /\ ncalls = 0

ThreadStep(th) ==
    \/ \E s, o \in BOOLEAN : worker_client(th, None, s, o)
    \/ \E s, o \in BOOLEAN : local_client(th, None, s, o)
    \/ WCSecede(th)
    \/ WCAddCallback(th)
    \/ BlockReturn(th)
    \/ \E e \in Excs : BlockRaise(th, e)
    \/ Propagate(th)
    \/ Catch(th)
    \/ \E u \in Tasks : Gather(th, u)
    \/ WaitReturn(th)
    \/ TaskFinish(th)
    \/ TaskError(th)

Next ==
    \/ \E th \in Threads : ThreadStep(th)
    \/ \E t \in Tasks : TaskStart(t)
    \/ LoopRun

Spec == Init /\ [][Next]_vars

\* Threads run on, the pool starts queued tasks when it has a free slot and
\* the control loop runs the callbacks posted to it.
FairSpec ==
    /\ Spec
    /\ \A th \in Threads : WF_vars(ThreadStep(th))
    /\ \A t \in Tasks : WF_vars(TaskStart(t))
    /\ WF_vars(LoopRun)

\* The worker when the scheduler may release the tasks it executes.
ReleaseNext == Next \/ \E t \in Tasks : Release(t)

ReleaseSpec == Init /\ [][ReleaseNext]_vars

\* No scope is open on any thread.
NoScopeOpen == \A th \in Threads : Len(stack[th]) = 0

\* A worker whose threads call worker_client and local_client with every
\* timeout a caller can write, one scope at a time, and whose blocks do
\* nothing but return.
TimeoutNext ==
    \/ \E th \in Threads, timeout \in Timeouts, s, o \in BOOLEAN :
           NoScopeOpen /\ worker_client(th, timeout, s, o)
    \/ \E th \in Threads, timeout \in Timeouts, s, o \in BOOLEAN :
           NoScopeOpen /\ local_client(th, timeout, s, o)
    \/ \E th \in Threads : WCSecede(th)
    \/ \E th \in Threads : WCAddCallback(th)
    \/ \E th \in Threads : BlockReturn(th)
    \/ \E th \in Threads : Catch(th)
    \/ \E t \in Tasks : TaskStart(t)

TimeoutSpec == Init /\ [][TimeoutNext]_vars

\* ------------------------------------------------------- properties
\* The last step left a scope whose block had been entered and raised.
BlockFailed == lastExit.blockExc # "none"
\* The last step left a scope by the generator running to its end.
Returned == lastExit.outcome = "returned"
\* The thread is inside a scope opened with separate_thread=true.
InSeparateScope(th) ==
    \E i \in 1..Len(stack[th]) :
        stack[th][i].separate_thread /\ stack[th][i].pc = "yield"

\* C1: a scope entered with separate_thread=true in which secede was performed
\* runs rejoin on exit also when the caller's block raises; the thread is
\* pool-accounted again and the released slot is not leaked.
C1_RejoinOnFailure ==
    (BlockFailed /\ lastExit.separate_thread /\ lastExit.secedes = 1)
        => /\ lastExit.rejoins = 1
           /\ lastExit.released => lastExit.accAfter

\* C2: with separate_thread=true entering releases one slot and exiting
\* reclaims one, on every exit path: the thread's pool accounting after the
\* scope equals its accounting before the scope.
C2_SlotsBalanced ==
    (lastExit.entered /\ lastExit.separate_thread /\ lastExit.outcome # "never")
        => /\ lastExit.secedes = 1
           /\ lastExit.rejoins = 1
           /\ lastExit.accAfter = lastExit.accBefore

\* Parts of C3: a task that opens the scope with separate_thread=true and
\* blocks on a sub-task of the same worker never deadlocks the worker.
\* (a) A thread that stays blocked inside such a scope forever does so only
\*     because other threads block while they hold the pool's slots.
C3_WaitReturns ==
    \A t \in Tasks :
        <>[](wait[t] # 0 /\ InSeparateScope(t))
            => <>[](\E v \in pool_threads \ {t} : wait[v] # 0)
\* (b) A queued task starts only when the pool has a free slot.
C3_StartNeedsSlot ==
    [][\A u \in Tasks :
          (tasks[u] = "waiting" /\ tasks'[u] = "processing")
              => Cardinality(pool_threads) < Capacity]_vars
\* (c) After the scope of a task that released its slot exits, the task's
\*     thread is pool-accounted again.
C3_AccountedAfterExit ==
    (lastExit.entered /\ lastExit.separate_thread /\ lastExit.released
       /\ lastExit.outcome # "never")
        => lastExit.accAfter
\* C3, the whole scenario: the seceded task's wait is not blocked by the pool,
\* the queued task needs the slot the secession frees, and once the scope has
\* exited the task's thread is pool-accounted again.
C3_Scenario == C3_WaitReturns /\ C3_StartNeedsSlot /\ []C3_AccountedAfterExit
\* The sub-task ran to completion while the scope of the seceded task is open.
C3_SubtaskDoneInScope ==
    \E t, u \in Tasks :
        /\ At(t, "yield") /\ Top(t).separate_thread /\ Top(t).released
        /\ u > t /\ tasks[u] = "finished" /\ wait[t] = 0
        /\ Cardinality(pool_threads) = 0

\* The step is one of a scope of th opened with separate_thread=false: the
\* scope is entered, moves on, or is left.
StepOfPlainScope(th) ==
    \/ /\ Len(stack'[th]) > Len(stack[th])
       /\ ~stack'[th][Len(stack'[th])].separate_thread
    \/ /\ Len(stack[th]) > 0
       /\ Len(stack'[th]) <= Len(stack[th])
       /\ stack'[th] # stack[th]
       /\ ~Top(th).separate_thread
    \/ /\ lastExit'.outcome # "never"
       /\ lastExit'.thread = th
       /\ ~lastExit'.separate_thread
\* C4: with separate_thread=false the scope calls neither secede nor rejoin
\* and posts no transition: no step of such a scope (entering it, leaving it)
\* changes the pool accounting, the control loop's queue or a task's state.
C4_PlainScopeIsInert ==
    [][\A th \in Threads :
          StepOfPlainScope(th)
              => /\ UNCHANGED <<pool_threads, pairing, loop, tasks>>
                 /\ (lastExit'.outcome # "never"
                       => /\ lastExit'.secedes = 0
                          /\ lastExit'.rejoins = 0
                          /\ lastExit'.posted = 0)]_vars
C4_PlainScopeLeft ==
    Returned /\ ~lastExit.separate_thread /\ lastExit.entered
             /\ lastExit.thread \in Tasks

\* C5: when the client cannot be obtained within the timeout the error reaches
\* the caller, the block is never entered, no secede is performed and no
\* transition is posted: pool accounting and task state are not touched.
C5_TimeoutHasNoEffect ==
    lastExit.outcome = "ConnectionTimeout"
        => /\ exc[lastExit.thread] = "ConnectionTimeout"
           /\ ~lastExit.entered
           /\ lastExit.client = 0
           /\ lastExit.secedes = 0
           /\ lastExit.posted = 0
           /\ lastExit.rejoins = 0
           /\ lastExit.accAfter = lastExit.accBefore
C5_TimedOut ==
    /\ lastExit.outcome = "ConnectionTimeout"
    /\ lastExit.separate_thread
    /\ lastExit.accBefore

\* C6: called from a thread that executes no worker task, worker_client
\* surfaces NotInTaskContext at once: no client is created, no secede is
\* performed and no transition is posted.
C6_OffTaskHasNoEffect ==
    (lastExit.outcome # "never" /\ lastExit.thread \notin Tasks)
        => /\ lastExit.outcome = "NotInTaskContext"
           /\ exc[lastExit.thread] = "NotInTaskContext"
           /\ ~lastExit.entered
           /\ ~lastExit.created
           /\ lastExit.client = 0
           /\ lastExit.secedes = 0
           /\ lastExit.posted = 0
           /\ lastExit.rejoins = 0
           /\ lastExit.accAfter = lastExit.accBefore
C6_OffTaskCall ==
    /\ lastExit.outcome = "NotInTaskContext"
    /\ lastExit.separate_thread
    /\ lastExit.thread = 0

C8_FailureAfterRejoin ==
    BlockFailed
        => /\ lastExit.outcome = lastExit.blockExc
           /\ exc[lastExit.thread] = lastExit.blockExc
           /\ lastExit.separate_thread => lastExit.rejoins = 1

Count(b) == IF b THEN 1 ELSE 0
\* The scope f has yielded the cached client and has made the calls that
\* worker_client makes when it is given separate_thread.
EffectsAsFor(f, separate_thread) ==
    /\ f.separate_thread = separate_thread
    /\ f.entered => f.client = client
    /\ f.entered => f.secedes = Count(separate_thread)
    /\ f.entered => f.posted = Count(separate_thread)
    /\ f.rejoins = Count(separate_thread /\ f.outcome = "returned")
\* C10: local_client yields the client and has the side effects worker_client
\* has for the same arguments, and emits one deprecation notice per call.
C10_AliasEquivalent ==
    /\ \A th \in Threads : \A i \in 1..Len(stack[th]) :
          /\ EffectsAsFor(stack[th][i], stack[th][i].arg)
          /\ stack[th][i].notices = Count(stack[th][i].alias)
    /\ lastExit.outcome # "never"
          => /\ EffectsAsFor(lastExit, lastExit.arg)
             /\ lastExit.notices = Count(lastExit.alias)
C10_AliasScopeLeft ==
    /\ Returned
    /\ lastExit.alias
    /\ ~lastExit.arg
    /\ lastExit.entered

\* The scopes whose records the state holds: the open ones and the one the
\* last step left.
Scopes ==
    UNION { { stack[th][i] : i \in 1..Len(stack[th]) } : th \in Threads }
        \cup (IF lastExit.outcome = "never" THEN {} ELSE {lastExit})
\* The number of seconds the timeout stands for (-1: it is not a duration).
Expected(timeout) == (CHOOSE c \in TimeoutCases : c.timeout = timeout).seconds

\* C11: the timeout get_client is called with is the explicit argument, or
\* the configured default when it is omitted, as a number of seconds, for
\* every valid encoding; a string that is not a duration fails the call with
\* a parse error before the worker, the client or the pool is touched.
C11_TimeoutResolved ==
    \A f \in Scopes :
        IF Expected(f.timeout) = -1
          THEN /\ f.outcome = "ParseError"
               /\ f.passed = -1 /\ f.client = 0 /\ ~f.created
               /\ f.secedes = 0 /\ f.posted = 0 /\ f.rejoins = 0
               /\ f.accAfter = f.accBefore
          ELSE /\ f.outcome # "ParseError"
               /\ f.seconds = Expected(f.timeout)
               /\ f.passed = f.seconds
\* A scope entered with a timeout given in minutes is open.
C11_MinutesPassed ==
    \E th \in Tasks :
        /\ At(th, "yield")
        /\ Top(th).timeout = String(<<"1", "m">>)
        /\ Top(th).passed = 60 /\ Top(th).client # 0
\* A call with a string that is not a duration has failed on a task's thread.
C11_ParseErrorSurfaced ==
    /\ lastExit.outcome = "ParseError" /\ lastExit.thread \in Tasks
    /\ exc[lastExit.thread] = "ParseError"

\* C12: in every state the number of pool-accounted threads is at most the
\* pool's concurrency limit, also after a seceded thread has rejoined while
\* another task holds the slot it released.
C12_WithinCapacity == Cardinality(pool_threads) <= Capacity

Seceded(t) == \E i \in 1..Len(pairing[t]) : pairing[t][i]
\* The step starts a queued task: a scheduling decision taken on capacity.
SchedulingDecision == \E u \in Tasks : tasks[u] = "waiting" /\ tasks'[u] # "waiting"

\* C14: once a task has seceded, its transition to long-running is applied
\* before the next capacity-based scheduling decision: no such decision is
\* taken while a task has released its slot and is still recorded processing.
C14_TransitionBeforeScheduling ==
    [][SchedulingDecision
          => ~\E t \in Tasks : Seceded(t) /\ tasks[t] = "processing"]_vars

\* The transitions to long-running triggered for task t that the state shows:
\* the one applied and those posted and not yet run.
Triggered(t) ==
    Cardinality({ i \in 1..Len(loop) : loop[i].key = t })
        + (IF tasks[t] = "long-running" THEN 1 ELSE 0)

\* C15: for each task the transition to long-running is triggered once, for
\* the key of the calling thread's task, whatever number of scopes the task
\* opens, nested or one after the other.
C15_TransitionOnce ==
    /\ \A t \in Tasks : Triggered(t) <= 1
    /\ \A f \in Scopes : f.posted <= f.secedes /\ (f.posted > 0 => f.thread \in Tasks)

\* C16: while the client of a separate_thread=true scope is with the caller's
\* block, secede has run and the thread holds no slot of the pool, so the
\* block's submissions and waits happen outside the pool's accounting.
C16_YieldAfterSecede ==
    \A th \in Threads :
        /\ InSeparateScope(th) => th \notin pool_threads
        /\ \A i \in 1..Len(stack[th]) :
              (stack[th][i].separate_thread /\ stack[th][i].pc = "yield")
                  => stack[th][i].secedes = 1 /\ ~stack[th][i].accInside
\* A task that released its slot waits for a sub-task inside its scope.
C16_WaitsWithoutSlot ==
    \E t \in Tasks :
        /\ At(t, "yield") /\ Top(t).separate_thread /\ Top(t).released
        /\ Top(t).client # 0 /\ wait[t] # 0 /\ t \notin pool_threads

\* The last step left a scope whose entry failed: the block was never run.
EntryFailed ==
    lastExit.outcome \notin {"never", "returned"} /\ ~lastExit.entered

\* C17: when the entry of a scope fails, at the worker lookup, the client
\* acquisition or the lookup of the task's record, the thread's pool
\* accounting is what it was before the call: no failed entry has run secede
\* without rejoin.
C17_FailedEntryBalanced ==
    EntryFailed
        => /\ lastExit.accAfter = lastExit.accBefore
           /\ lastExit.secedes > 0 => lastExit.rejoins > 0

\* C18: when the control loop runs a posted transition to long-running, the
\* record of the task it names is in state processing.
C18_CallbackFindsProcessing ==
    [][(Len(loop) > 0 /\ loop' = Tail(loop))
          => tasks[Head(loop).key] = "processing"]_vars

\* C19: leaving a scope posts nothing to the control loop and changes no task
\* record, and a task recorded long-running stays so until its record leaves
\* the task table, also when its thread holds a slot again.
C19_ExitKeepsLongRunning ==
    [][/\ (lastExit'.outcome # "never" /\ lastExit'.entered)
            => loop' = loop /\ tasks' = tasks
       /\ \A t \in Tasks :
            tasks[t] = "long-running"
                => tasks'[t] \in {"long-running"} \cup Ended]_vars
\* A task's thread has left its scope and holds a slot while the task is
\* recorded long-running.
C19_LongRunningHoldsSlot ==
    /\ Returned /\ lastExit.rejoins = 1 /\ lastExit.accAfter
    /\ lastExit.thread \in pool_threads
    /\ Len(stack[lastExit.thread]) = 0
    /\ tasks[lastExit.thread] = "long-running"
====
